---- MODULE Spec2Model ----
(***************************************************************************)
(* The identity store of server-simple.js: the in-memory `users` object    *)
(* and the Express handlers register, login, me, update-profile,           *)
(* forgot-password and logout that read and write it.                      *)
(*                                                                         *)
(* Strings that the code takes apart are modelled by their parts: an       *)
(* email is the sequence of its '@'-separated parts (email.split('@')),    *)
(* a bearer token the sequence of its '-'-separated parts                  *)
(* (token.split('-')).  <<>> is the missing (or empty) string.             *)
(* `users` is a JavaScript object: its own keys are enumerated by for-in   *)
(* in insertion order, so it is a sequence of [key, user] entries with     *)
(* pairwise distinct keys.  Emails are addresses holding an '@', so none   *)
(* of them names a property the object inherits.                           *)
(*                                                                         *)
(* Every handler is synchronous: it runs from the request to the response  *)
(* without yielding, so a handler is one step.  Each handler is an         *)
(* operator from the store and the request to the store and the response;  *)
(* the actions apply the operators to the requests that are sent, and the  *)
(* properties apply them, in every reachable state, to every request.      *)
(***************************************************************************)
EXTENDS Integers, Sequences, FiniteSets, TLC

VARIABLES users, now, res, issued

vars == <<users, now, res, issued>>

(* ---------------------------------------------------------------- bounds *)
\* Date.now() takes the values 1..MaxClock.
MaxClock == 2
\* Register requests are explored while the store holds fewer records.
MaxUsers == 2
\* A valid password must have at least this many characters.
MinPasswordLen == 6

(* ---------------------------------------------------------- input values *)
UNDEF == "<undefined>"
NULL == "<null>"
NoEmail == <<>>
NoToken == <<>>

Emails == {<<"a", "x.com">>, <<"b", "x.com">>, <<"c", "x.com">>}
EmailInputs == Emails \cup {NoEmail}
PasswordInputs == {UNDEF, "short", "secret1", "secret2"}
NameInputs == {UNDEF, "", "Ann"}
MobileInputs == {UNDEF, "", "999"}
AlternativeInputs == {UNDEF, ""}
AadharInputs == {UNDEF, "1234"}
AvatarInputs == {UNDEF, NULL}

\* JavaScript truthiness of the values above.
Truthy(v) == v \notin {UNDEF, NULL, ""}

\* Truthiness of a string held by its parts (an email, a token).
Present(parts) == parts # <<>>

\* a || b
Or(a, b) == IF Truthy(a) THEN a ELSE b

(* ------------------------------------------------------------ the object *)
Keys(U) == {U[i].key : i \in 1..Len(U)}

\* users[email] is truthy
Has(U, email) == email \in Keys(U)

IndexOf(U, email) == CHOOSE i \in 1..Len(U) : U[i].key = email

\* users[email]
Get(U, email) == U[IndexOf(U, email)].user

\* delete users[email]
Delete(U, email) == SelectSeq(U, LAMBDA e : e.key # email)

\* users[email] = user: an existing key keeps its place, a new one goes last
Put(U, email, user) ==
    IF Has(U, email)
    THEN [U EXCEPT ![IndexOf(U, email)].user = user]
    ELSE Append(U, [key |-> email, user |-> user])

(* ---------------------------------------------------------------- tokens *)
\* `token-${userId}`
Token(id) == <<"token", id>>

\* token.split('-')[1]
TokenUserId(token) == IF Len(token) >= 2 THEN token[2] ELSE UNDEF

\* The scan with the record assigned before the id is compared: when no id
\* matches, the last record scanned is left in `user`.
FindByIdLastScanned(U, userId) ==
    LET hits == {i \in 1..Len(U) : U[i].user.id = userId}
    IN  IF hits = {} THEN Len(U) ELSE CHOOSE i \in hits : \A j \in hits : i <= j

\* for (const email in users) if (users[email].id === userId) ... break
FindById(U, userId) ==
    LET hits == {i \in 1..Len(U) : U[i].user.id = userId}
    IN  IF hits = {} THEN 0 ELSE CHOOSE i \in hits : \A j \in hits : i <= j

(* ------------------------------------------------------------- responses *)
Fail(status, message) ==
    [status |-> status, success |-> FALSE, message |-> message]

ShortView(user) == [id |-> user.id, email |-> user.email, name |-> user.name]

ProfileView(user) ==
    [id |-> user.id, email |-> user.email, name |-> user.name,
     mobileNumber |-> Or(user.mobileNumber, ""),
     alternativeNumber |-> Or(user.alternativeNumber, ""),
     aadharNumber |-> Or(user.aadharNumber, ""),
     avatar |-> Or(user.avatar, NULL)]

(* -------------------------------------------------------------- handlers *)
\* register without the lookup of line 60: a second register overwrites.
registerOverwrites(U, t, body) ==
    IF ~Present(body.email) \/ ~Truthy(body.password)
    THEN [users |-> U, res |-> Fail(400, "Email and password required")]
    ELSE IF Len(body.password) < MinPasswordLen
    THEN [users |-> U, res |-> Fail(400, "Password must be 6+ characters")]
    ELSE LET userId == ToString(t)
             user == [id |-> userId, email |-> body.email,
                      password |-> body.password,
                      name |-> Or(body.name, body.email[1]),
                      mobileNumber |-> UNDEF, alternativeNumber |-> UNDEF,
                      aadharNumber |-> UNDEF, avatar |-> UNDEF]
         IN  [users |-> Put(U, body.email, user),
              res |-> [status |-> 201, success |-> TRUE,
                       message |-> "Registered successfully",
                       token |-> Token(userId),
                       user |-> [id |-> userId, email |-> body.email,
                                 name |-> Or(body.name, body.email[1])]]]

\* register reading the clock once for the token and once more for the
\* stored id.
registerReadsClockTwice(U, t, body) ==
    IF ~Present(body.email) \/ ~Truthy(body.password)
    THEN [users |-> U, res |-> Fail(400, "Email and password required")]
    ELSE IF Len(body.password) < MinPasswordLen
    THEN [users |-> U, res |-> Fail(400, "Password must be 6+ characters")]
    ELSE IF Has(U, body.email)
    THEN [users |-> U, res |-> Fail(400, "User already exists")]
    ELSE LET userId == ToString(t)
             user == [id |-> ToString(t + 1), email |-> body.email,
                      password |-> body.password,
                      name |-> Or(body.name, body.email[1]),
                      mobileNumber |-> UNDEF, alternativeNumber |-> UNDEF,
                      aadharNumber |-> UNDEF, avatar |-> UNDEF]
         IN  [users |-> Put(U, body.email, user),
              res |-> [status |-> 201, success |-> TRUE,
                       message |-> "Registered successfully",
                       token |-> Token(userId),
                       user |-> [id |-> userId, email |-> body.email,
                                 name |-> Or(body.name, body.email[1])]]]

\* POST /api/auth/register
register(U, t, body) ==
    IF ~Present(body.email) \/ ~Truthy(body.password)
    THEN [users |-> U, res |-> Fail(400, "Email and password required")]
    ELSE IF Len(body.password) < MinPasswordLen
    THEN [users |-> U, res |-> Fail(400, "Password must be 6+ characters")]
    ELSE IF Has(U, body.email)
    THEN [users |-> U, res |-> Fail(400, "User already exists")]
    ELSE LET userId == ToString(t)
             user == [id |-> userId, email |-> body.email,
                      password |-> body.password,
                      name |-> Or(body.name, body.email[1]),
                      mobileNumber |-> UNDEF, alternativeNumber |-> UNDEF,
                      aadharNumber |-> UNDEF, avatar |-> UNDEF]
         IN  [users |-> Put(U, body.email, user),
              res |-> [status |-> 201, success |-> TRUE,
                       message |-> "Registered successfully",
                       token |-> Token(userId),
                       user |-> [id |-> userId, email |-> body.email,
                                 name |-> Or(body.name, body.email[1])]]]

\* login that answers an unknown email differently from a wrong password.
loginTellsApart(U, body) ==
    IF ~Present(body.email) \/ ~Truthy(body.password)
    THEN [users |-> U, res |-> Fail(400, "Email and password required")]
    ELSE IF ~Has(U, body.email)
    THEN [users |-> U, res |-> Fail(404, "User not found")]
    ELSE IF Get(U, body.email).password # body.password
    THEN [users |-> U, res |-> Fail(401, "Invalid credentials")]
    ELSE LET user == Get(U, body.email)
         IN  [users |-> U,
              res |-> [status |-> 200, success |-> TRUE,
                       message |-> "Login successful",
                       token |-> Token(user.id),
                       user |-> ShortView(user)]]

\* POST /api/auth/login
login(U, body) ==
    IF ~Present(body.email) \/ ~Truthy(body.password)
    THEN [users |-> U, res |-> Fail(400, "Email and password required")]
    ELSE IF ~Has(U, body.email) \/ Get(U, body.email).password # body.password
    THEN [users |-> U, res |-> Fail(401, "Invalid credentials")]
    ELSE LET user == Get(U, body.email)
         IN  [users |-> U,
              res |-> [status |-> 200, success |-> TRUE,
                       message |-> "Login successful",
                       token |-> Token(user.id),
                       user |-> ShortView(user)]]

\* The profile lookup with the defaults of lines 167-170 written back into
\* the record instead of into the response only.
meWritesDefaults(U, token) ==
    IF ~Present(token)
    THEN [users |-> U, res |-> Fail(401, "No token provided")]
    ELSE LET i == FindById(U, TokenUserId(token))
         IN  IF i = 0
             THEN [users |-> U, res |-> Fail(404, "User not found")]
             ELSE [users |-> [U EXCEPT
                                ![i].user.mobileNumber = Or(@, ""),
                                ![i].user.alternativeNumber = Or(@, ""),
                                ![i].user.aadharNumber = Or(@, ""),
                                ![i].user.avatar = Or(@, NULL)],
                   res |-> [status |-> 200, success |-> TRUE,
                            user |-> ProfileView(U[i].user)]]

\* GET /api/auth/me
me(U, token) ==
    IF ~Present(token)
    THEN [users |-> U, res |-> Fail(401, "No token provided")]
    ELSE LET i == FindById(U, TokenUserId(token))
         IN  IF i = 0
             THEN [users |-> U, res |-> Fail(404, "User not found")]
             ELSE [users |-> U,
                   res |-> [status |-> 200, success |-> TRUE,
                            user |-> ProfileView(U[i].user)]]

\* The assignments of update-profile to the found record, in source order.
SetName(user, body) ==
    IF Truthy(body.name) THEN [user EXCEPT !.name = body.name] ELSE user

\* The profile fields tested like the name, by truthiness, instead of
\* against undefined: an empty string or null is not written.
SetProfileFieldsIfTruthy(user, body) ==
    [user EXCEPT
       !.mobileNumber = IF Truthy(body.mobileNumber) THEN body.mobileNumber ELSE @,
       !.alternativeNumber = IF Truthy(body.alternativeNumber) THEN body.alternativeNumber ELSE @,
       !.aadharNumber = IF Truthy(body.aadharNumber) THEN body.aadharNumber ELSE @,
       !.avatar = IF Truthy(body.avatar) THEN body.avatar ELSE @]

SetProfileFields(user, body) ==
    [user EXCEPT
       !.mobileNumber = IF body.mobileNumber # UNDEF THEN body.mobileNumber ELSE @,
       !.alternativeNumber = IF body.alternativeNumber # UNDEF THEN body.alternativeNumber ELSE @,
       !.aadharNumber = IF body.aadharNumber # UNDEF THEN body.aadharNumber ELSE @,
       !.avatar = IF body.avatar # UNDEF THEN body.avatar ELSE @]

\* The re-key without line 226: the old key is deleted and the record is
\* never stored under the new one.
ReKeyDropsRecord(U, userEmail, email, user) == Delete(U, userEmail)

\* The re-key without line 227: the old key is never deleted.
ReKeyKeepsOld(U, userEmail, email, user) == Put(U, email, user)

\* users[email] = user; delete users[userEmail];
ReKey(U, userEmail, email, user) == Delete(Put(U, email, user), userEmail)

\* update-profile without the lookup of lines 219-224: the record is moved
\* onto whatever is stored under the new email.
updateProfileNoConflictCheck(U, token, body) ==
    IF ~Present(token)
    THEN [users |-> U, res |-> Fail(401, "No token provided")]
    ELSE LET i == FindById(U, TokenUserId(token))
         IN  IF i = 0
             THEN [users |-> U, res |-> Fail(404, "User not found")]
             ELSE LET userEmail == U[i].key
                      named == SetName(U[i].user, body)
                      U1 == [U EXCEPT ![i].user = named]
                      user == SetProfileFields(named, body)
                  IN  [users |-> IF Present(body.email) /\ body.email # userEmail
                                 THEN ReKey(U1, userEmail, body.email, user)
                                 ELSE [U1 EXCEPT ![i].user = user],
                       res |-> [status |-> 200, success |-> TRUE,
                                message |-> "Profile updated successfully",
                                user |-> ProfileView(user)]]

\* POST /api/auth/update-profile
updateProfile(U, token, body) ==
    IF ~Present(token)
    THEN [users |-> U, res |-> Fail(401, "No token provided")]
    ELSE LET i == FindById(U, TokenUserId(token))
         IN  IF i = 0
             THEN [users |-> U, res |-> Fail(404, "User not found")]
             ELSE LET userEmail == U[i].key
                      named == SetName(U[i].user, body)
                      U1 == [U EXCEPT ![i].user = named]
                  IN  IF Present(body.email) /\ body.email # userEmail
                      THEN IF Has(U1, body.email)
                           THEN [users |-> U1,
                                 res |-> Fail(400, "Email already in use")]
                           ELSE LET user == SetProfileFields(named, body)
                                IN  [users |-> ReKey(U1, userEmail, body.email, user),
                                     res |-> [status |-> 200, success |-> TRUE,
                                              message |-> "Profile updated successfully",
                                              user |-> ProfileView(user)]]
                      ELSE LET user == SetProfileFields(named, body)
                           IN  [users |-> [U1 EXCEPT ![i].user = user],
                                res |-> [status |-> 200, success |-> TRUE,
                                         message |-> "Profile updated successfully",
                                         user |-> ProfileView(user)]]

\* POST /api/auth/forgot-password
forgotPassword(U, body) ==
    IF ~Present(body.email)
    THEN [users |-> U, res |-> Fail(400, "Email is required")]
    ELSE IF ~Has(U, body.email)
    THEN [users |-> U, res |-> Fail(404, "User not found")]
    ELSE [users |-> U,
          res |-> [status |-> 200, success |-> TRUE,
                   message |-> "Password reset email sent (demo mode)"]]

\* POST /api/auth/logout
logout(U) ==
    [users |-> U,
     res |-> [status |-> 200, success |-> TRUE,
              message |-> "Logged out successfully"]]

(* --------------------------------------------------------------- requests *)
TokenInputs ==
    {NoToken, <<"garbage">>} \cup {Token(ToString(t)) : t \in 1..MaxClock}

RegisterBodies ==
    [email : EmailInputs, password : PasswordInputs, name : NameInputs]

LoginBodies == [email : EmailInputs, password : PasswordInputs]

UpdateBodies ==
    [email : EmailInputs, name : NameInputs, mobileNumber : MobileInputs,
     alternativeNumber : AlternativeInputs, aadharNumber : AadharInputs,
     avatar : AvatarInputs]

ForgotBodies == [email : EmailInputs]

\* Update bodies with no profile field, and with all four of them.
BareUpdateBodies ==
    [email : EmailInputs, name : NameInputs, mobileNumber : {UNDEF},
     alternativeNumber : {UNDEF}, aadharNumber : {UNDEF}, avatar : {UNDEF}]

LoadedUpdateBodies ==
    [email : EmailInputs, name : NameInputs, mobileNumber : {"999"},
     alternativeNumber : {""}, aadharNumber : {"1234"}, avatar : {NULL}]

\* The requests the behaviours are built from: every early return and the
\* success of every handler is taken; the stored records differ in key,
\* email, id and position, and carry one password, the default name and no
\* profile field.  Names and profile fields enter through the bodies the
\* properties quantify over.
SentRegisterBodies ==
    [email : EmailInputs, password : {UNDEF, "short", "secret1"},
     name : {UNDEF}]

SentUpdateBodies ==
    [email : EmailInputs, name : {UNDEF}, mobileNumber : {UNDEF},
     alternativeNumber : {UNDEF}, aadharNumber : {UNDEF}, avatar : {UNDEF}]

\* What the client sees of a request: the route and the handler's response.
Sent(path, r) == [path |-> path] @@ r.res

(* ------------------------------------------------------------ the client *)
\* The credentials and token a successful register handed to its caller.
Issue(I, body, r) ==
    IF r.res.status = 201
    THEN I \cup {[email |-> body.email, password |-> body.password,
                  token |-> r.res.token]}
    ELSE I

\* An email change retires the credentials issued for the old address.
Retire(I, U2) == {c \in I : c.email \in Keys(U2)}

(* ----------------------------------------------------------------- state *)
Init ==
    /\ users = <<>>
    /\ now = 1
    /\ res = [path |-> "none", status |-> 0]
    /\ issued = {}

\* The clock read by Date.now() advances between requests.
Tick ==
    /\ now < MaxClock
    /\ now' = now + 1
    /\ UNCHANGED <<users, res, issued>>

Register ==
    \E body \in SentRegisterBodies :
        LET r == register(users, now, body)
        IN  /\ Len(users) < MaxUsers
            /\ users' = r.users
            /\ res' = Sent("register", r)
            /\ issued' = Issue(issued, body, r)
            /\ UNCHANGED now

Login ==
    \E body \in LoginBodies :
        LET r == login(users, body)
        IN  /\ users' = r.users
            /\ res' = Sent("login", r)
            /\ UNCHANGED <<now, issued>>

Me ==
    \E token \in TokenInputs :
        LET r == me(users, token)
        IN  /\ users' = r.users
            /\ res' = Sent("me", r)
            /\ UNCHANGED <<now, issued>>

UpdateProfile ==
    \E token \in TokenInputs, body \in SentUpdateBodies :
        LET r == updateProfile(users, token, body)
        IN  /\ users' = r.users
            /\ res' = Sent("update-profile", r)
            /\ issued' = Retire(issued, r.users)
            /\ UNCHANGED now

ForgotPassword ==
    \E body \in ForgotBodies :
        LET r == forgotPassword(users, body)
        IN  /\ users' = r.users
            /\ res' = Sent("forgot-password", r)
            /\ UNCHANGED <<now, issued>>

Logout ==
    LET r == logout(users)
    IN  /\ users' = r.users
        /\ res' = Sent("logout", r)
        /\ UNCHANGED <<now, issued>>

Next ==
    \/ Tick
    \/ Register
    \/ Login
    \/ Me
    \/ UpdateProfile
    \/ ForgotPassword
    \/ Logout

Spec == Init /\ [][Next]_vars

(* ------------------------------------------------- one User's profile *)
\* The behaviours of one User who keeps its address and edits its profile:
\* the stored record takes every name, password and profile field value.
ProfileRegisterBodies ==
    [email : {<<"a", "x.com">>, NoEmail}, password : PasswordInputs,
     name : NameInputs]

\* The four profile fields of a request, with at most one of them given or
\* all of them given.
ProfileFieldInputs ==
    {q \in [mobileNumber : MobileInputs, alternativeNumber : AlternativeInputs,
            aadharNumber : AadharInputs, avatar : AvatarInputs] :
        \/ Cardinality({f \in DOMAIN q : q[f] # UNDEF}) <= 1
        \/ \A f \in DOMAIN q : q[f] # UNDEF}

ProfileUpdateBodies ==
    {[email |-> e, name |-> n] @@ q :
        e \in {<<"a", "x.com">>, NoEmail}, n \in NameInputs,
        q \in ProfileFieldInputs}

RegisterProfile ==
    \E body \in ProfileRegisterBodies :
        LET r == register(users, now, body)
        IN  /\ users' = r.users
            /\ res' = Sent("register", r)
            /\ issued' = Issue(issued, body, r)
            /\ UNCHANGED now

UpdateFields ==
    \E token \in TokenInputs, body \in ProfileUpdateBodies :
        LET r == updateProfile(users, token, body)
        IN  /\ users' = r.users
            /\ res' = Sent("update-profile", r)
            /\ issued' = Retire(issued, r.users)
            /\ UNCHANGED now

NextProfile ==
    \/ Tick
    \/ RegisterProfile
    \/ Login
    \/ Me
    \/ UpdateFields
    \/ ForgotPassword
    \/ Logout

SpecProfile == Init /\ [][NextProfile]_vars

(* ---------------------------------------------------------------- claims *)
\* The caller a token names, stated on the store itself: the positions of
\* the records whose id is the token's second part.
Owners(U, token) ==
    IF Len(token) >= 2 THEN {i \in 1..Len(U) : U[i].user.id = token[2]} ELSE {}

FirstOwner(U, token) == CHOOSE i \in Owners(U, token) : \A j \in Owners(U, token) : i <= j

\* A request that asks the caller's record to move to another address.
AsksRename(U, token, body) ==
    /\ Owners(U, token) # {}
    /\ body.email # NoEmail
    /\ body.email # U[FirstOwner(U, token)].key

\* C1: after a successful update-profile that changes a user's email from A
\* to an unused email B, GET profile with the same token, and login with B,
\* return a user view whose email is B.
C1_ProfileShowsNewEmail ==
    \A token \in TokenInputs, body \in SentUpdateBodies :
        LET r == updateProfile(users, token, body)
            old == users[FirstOwner(users, token)].user
        IN  (AsksRename(users, token, body) /\ r.res.status = 200)
            => /\ me(r.users, token).res.status = 200
               /\ me(r.users, token).res.user.email = body.email
               /\ login(r.users, [email |-> body.email,
                                  password |-> old.password]).res.user.email
                      = body.email

\* C2: an updateProfile asking for an email already used by a different
\* user fails with ConflictError and leaves the whole store unchanged,
\* whatever other fields the request carried.
C2_ConflictLeavesStoreUnchanged ==
    \A token \in TokenInputs, body \in UpdateBodies :
        LET r == updateProfile(users, token, body)
        IN  (AsksRename(users, token, body) /\ body.email \in Keys(users))
            => /\ r.res = Fail(400, "Email already in use")
               /\ r.users = users

\* C3 (as stated): a register call for an email that already has a stored
\* User is rejected with ConflictError whatever its password and name, and
\* the store is unchanged.
C3_DuplicateAlwaysConflict ==
    \A body \in RegisterBodies :
        LET r == register(users, now, body)
        IN  (body.email \in Keys(users))
            => /\ r.res = Fail(400, "User already exists")
               /\ r.users = users

\* C3 (amended): a register call for an email that already has a stored
\* User is rejected and leaves the store unchanged; the rejection is
\* ConflictError whatever the name when the password has at least 6
\* characters, and ValidationError when the password is missing or shorter.
C3_DuplicateRegisterRejected ==
    \A body \in RegisterBodies :
        LET r == register(users, now, body)
        IN  (body.email \in Keys(users))
            => /\ r.users = users
               /\ r.res =
                    IF body.password \in {UNDEF, ""}
                    THEN Fail(400, "Email and password required")
                    ELSE IF Len(body.password) < 6
                    THEN Fail(400, "Password must be 6+ characters")
                    ELSE Fail(400, "User already exists")

\* C3 witness: a second register for a stored email was answered with the
\* conflict.
C3_Witness ==
    /\ res.path = "register"
    /\ res.status = 400
    /\ res.message = "User already exists"
    /\ users # <<>>

\* C4: for each email value there is at most one stored User whose email
\* attribute equals it.
C4_OneUserPerEmail ==
    \A i, j \in 1..Len(users) :
        users[i].user.email = users[j].user.email => i = j

\* C5: no two stored Users share an id, so a token resolves to at most one
\* User.
C5_IdsUnique ==
    \A i, j \in 1..Len(users) :
        users[i].user.id = users[j].user.id => i = j

\* The fields of a record other than its email.
Rest(user) == [f \in DOMAIN user \ {"email"} |-> user[f]]

\* What a successful update leaves of `old` under `body`, the email aside.
Overwritten(old, body) ==
    [id |-> old.id, password |-> old.password,
     name |-> IF body.name \in {UNDEF, ""} THEN old.name ELSE body.name,
     mobileNumber |-> IF body.mobileNumber = UNDEF THEN old.mobileNumber
                      ELSE body.mobileNumber,
     alternativeNumber |-> IF body.alternativeNumber = UNDEF
                           THEN old.alternativeNumber
                           ELSE body.alternativeNumber,
     aadharNumber |-> IF body.aadharNumber = UNDEF THEN old.aadharNumber
                      ELSE body.aadharNumber,
     avatar |-> IF body.avatar = UNDEF THEN old.avatar ELSE body.avatar]

\* C6: an updateProfile that changes the email to an unused value keeps the
\* record's id and every field the request did not overwrite, and the scan
\* for the token issued at registration finds the record under its new key.
C6_RenameKeepsRecord ==
    \A token \in TokenInputs, body \in UpdateBodies :
        LET r == updateProfile(users, token, body)
            old == users[FirstOwner(users, token)].user
        IN  (AsksRename(users, token, body) /\ body.email \notin Keys(users))
            => /\ r.res.status = 200
               /\ Owners(r.users, token) # {}
               /\ r.users[FirstOwner(r.users, token)].key = body.email
               /\ r.users[FirstOwner(r.users, token)].user.id = old.id
               /\ Rest(r.users[FirstOwner(r.users, token)].user)
                      = Overwritten(old, body)

\* C7: the re-key of updateProfile is one step: after any update-profile
\* request the moved record is stored under the new key and no longer under
\* the old one, every other key is as before, and no request ever sees a
\* store with one address stored twice.
C7_ReKeyAtomic ==
    /\ \A i, j \in 1..Len(users) : users[i].key = users[j].key => i = j
    /\ \A token \in TokenInputs,
          body \in BareUpdateBodies \cup LoadedUpdateBodies :
           LET r == updateProfile(users, token, body)
               oldKey == users[FirstOwner(users, token)].key
           IN  /\ Len(r.users) = Len(users)
               /\ IF AsksRename(users, token, body)
                     /\ body.email \notin Keys(users)
                  THEN /\ r.res.status = 200
                       /\ Keys(r.users)
                              = (Keys(users) \ {oldKey}) \cup {body.email}
                       /\ \A i \in 1..Len(users) :
                              users[i].key # oldKey
                              => \E j \in 1..Len(r.users) :
                                     r.users[j] = users[i]
                  ELSE Keys(r.users) = Keys(users)

\* C7 witness: update-profile has moved a record away from the address it
\* was registered under.
C7_Witness ==
    /\ res.path = "update-profile"
    /\ res.status = 200
    /\ \E i \in 1..Len(users) :
           /\ users[i].user.id = res.user.id
           /\ users[i].key # users[i].user.email

\* C8: if register(email, password) succeeds, a later login with the same
\* credentials, with no email change in between, succeeds and returns the
\* token register returned.
C8_RegisterThenLogin ==
    /\ \A c \in issued :
           LET l == login(users, [email |-> c.email, password |-> c.password])
           IN  /\ l.res.status = 200
               /\ l.res.token = c.token
    /\ \A body \in RegisterBodies :
           LET r == register(users, now, body)
               l == login(r.users, [email |-> body.email,
                                    password |-> body.password])
           IN  r.res.status = 201
               => /\ Len(body.password) >= 6
                  /\ l.res.status = 200
                  /\ l.res.token = r.res.token
                  /\ l.res.user = r.res.user

\* C8 witness: a login answered with the token an earlier register issued,
\* after other requests were handled in between.
C8_Witness ==
    /\ res.path = "login"
    /\ res.status = 200
    /\ Len(users) = 2
    /\ \E c \in issued : c.token = res.token /\ c.email = res.user.email

\* A login request with both fields given whose password is not the one
\* stored under its email.
WrongPassword(U, b) ==
    /\ b.password \notin {UNDEF, ""}
    /\ \E i \in 1..Len(U) :
           U[i].key = b.email /\ U[i].user.password # b.password

\* A login request with both fields given whose email has no stored User.
UnknownEmail(U, b) ==
    /\ b.email # NoEmail
    /\ b.password \notin {UNDEF, ""}
    /\ \A i \in 1..Len(U) : U[i].key # b.email

\* C9: login with a stored email and another password, and login with an
\* email that has no stored User, both yield AuthError and nothing else,
\* and the two responses are the same.
C9_LoginFailuresAlike ==
    /\ \A b \in LoginBodies :
           (WrongPassword(users, b) \/ UnknownEmail(users, b))
           => /\ login(users, b).res.status = 401
              /\ login(users, b).res.success = FALSE
              /\ login(users, b).users = users
    /\ \A b1 \in LoginBodies :
           WrongPassword(users, b1)
           => \A b2 \in LoginBodies :
                  UnknownEmail(users, b2)
                  => login(users, b1).res = login(users, b2).res

\* C9 witness: a login was refused while a User is stored.
C9_Witness ==
    /\ res.path = "login"
    /\ res.status = 401
    /\ users # <<>>
    /\ Keys(users) # Emails

\* C10 (as stated): updateProfile with a token that resolves to no stored
\* User fails with AuthError and leaves the store unchanged.
C10_UnresolvedIsAuthError ==
    \A token \in TokenInputs, body \in BareUpdateBodies \cup LoadedUpdateBodies :
        LET r == updateProfile(users, token, body)
        IN  (Owners(users, token) = {})
            => /\ r.res.status = 401
               /\ r.users = users

\* C10 (amended): updateProfile with a token that resolves to no stored
\* User leaves the store unchanged and fails with NotFoundError (404, "User
\* not found") when a token was given, with AuthError (401) only when no
\* token was given.
C10_UnresolvedTokenRejected ==
    \A token \in TokenInputs, body \in BareUpdateBodies \cup LoadedUpdateBodies :
        LET r == updateProfile(users, token, body)
        IN  (Owners(users, token) = {})
            => /\ r.users = users
               /\ r.res = IF token = NoToken
                          THEN Fail(401, "No token provided")
                          ELSE Fail(404, "User not found")

\* C10 witness: update-profile answered a token of no stored User while
\* Users are stored.
C10_Witness ==
    /\ res.path = "update-profile"
    /\ res.status = 404
    /\ users # <<>>

\* C11: login, forgotPassword, the profile lookup and logout never change
\* the store: for every input, accepted or refused, the store after the
\* call is the store before it.
C11_ReadsLeaveStore ==
    /\ \A body \in LoginBodies : login(users, body).users = users
    /\ \A body \in ForgotBodies : forgotPassword(users, body).users = users
    /\ \A token \in TokenInputs : me(users, token).users = users
    /\ logout(users).users = users

\* C11 witness: a profile lookup was answered with a stored User's profile.
C11_Witness ==
    /\ res.path = "me"
    /\ res.status = 200
    /\ \E i \in 1..Len(users) : users[i].user.id = res.user.id

\* C12: a User is never removed: every step keeps a record for each stored
\* id and never lowers the number of stored Users, and the profile lookup
\* with the token of a stored id is never answered NotFoundError.
C12_NeverRemoved ==
    /\ [](\A i \in 1..Len(users) :
              me(users, Token(users[i].user.id)).res.status = 200)
    /\ [][/\ Len(users') >= Len(users)
          /\ \A i \in 1..Len(users) :
                 \E j \in 1..Len(users') :
                     users'[j].user.id = users[i].user.id]_vars

\* C12 witness: after its record was moved to another address, a User's
\* profile lookup was still answered with its profile.
C12_Witness ==
    /\ res.path = "me"
    /\ res.status = 200
    /\ \E i \in 1..Len(users) :
           /\ users[i].user.id = res.user.id
           /\ users[i].key # users[i].user.email
    /\ Len(users) = 2

\* C13: for a User stored under A and an unused email B: if register(B)
\* comes before the User's update-profile {email: B}, the register succeeds
\* and the update fails with ConflictError; if the update comes first, it
\* succeeds and the register fails with ConflictError.  Either way exactly
\* one of the two succeeds.
C13_OrderDecides ==
    \A token \in TokenInputs, B \in Emails :
        (/\ Owners(users, token) # {}
         /\ B # users[FirstOwner(users, token)].key
         /\ B \notin Keys(users))
        => \A upd \in {b \in BareUpdateBodies \cup LoadedUpdateBodies :
                          b.email = B},
              reg \in {b \in RegisterBodies :
                          b.email = B /\ b.password \in {"secret1", "secret2"}},
              t \in now..MaxClock :
               LET r1 == register(users, t, reg)
                   u1 == updateProfile(r1.users, token, upd)
                   u2 == updateProfile(users, token, upd)
                   r2 == register(u2.users, t, reg)
               IN  /\ r1.res.status = 201
                   /\ u1.res = Fail(400, "Email already in use")
                   /\ u2.res.status = 200
                   /\ r2.res = Fail(400, "User already exists")

\* C13 witness: after a second User registered, an update-profile asking
\* for a stored email was answered with the conflict.
C13_Witness ==
    /\ res.path = "update-profile"
    /\ res.status = 400
    /\ res.message = "Email already in use"
    /\ Cardinality(issued) = 2

\* C14: a successful updateProfile overwrites mobileNumber,
\* alternativeNumber, aadharNumber and avatar exactly when the request
\* holds the field (an empty string or null included), changes the name
\* only when the given name is truthy, and leaves every other field with
\* its previous value.
C14_FieldsOverwrittenWhenGiven ==
    \A token \in TokenInputs, body \in UpdateBodies :
        LET r == updateProfile(users, token, body)
            old == users[FirstOwner(users, token)]
            key == IF AsksRename(users, token, body) THEN body.email
                   ELSE old.key
            new == r.users[CHOOSE j \in 1..Len(r.users) :
                               r.users[j].key = key].user
        IN  (Owners(users, token) # {} /\ r.res.status = 200)
            => /\ key \in Keys(r.users)
               /\ new.mobileNumber = IF body.mobileNumber = UNDEF
                                     THEN old.user.mobileNumber
                                     ELSE body.mobileNumber
               /\ new.alternativeNumber = IF body.alternativeNumber = UNDEF
                                          THEN old.user.alternativeNumber
                                          ELSE body.alternativeNumber
               /\ new.aadharNumber = IF body.aadharNumber = UNDEF
                                     THEN old.user.aadharNumber
                                     ELSE body.aadharNumber
               /\ new.avatar = IF body.avatar = UNDEF THEN old.user.avatar
                               ELSE body.avatar
               /\ new.name = IF body.name \in {UNDEF, NULL, ""}
                             THEN old.user.name ELSE body.name
               /\ new.id = old.user.id
               /\ new.password = old.user.password

\* C14 witness: update-profile requests have left a record with a given
\* name, an empty mobileNumber, an aadharNumber and a null avatar.
C14_Witness ==
    /\ res.path = "update-profile"
    /\ res.status = 200
    /\ \E i \in 1..Len(users) :
           /\ users[i].user.name = "Ann"
           /\ users[i].user.mobileNumber = ""
           /\ users[i].user.alternativeNumber = UNDEF
           /\ users[i].user.aadharNumber = "1234"
           /\ users[i].user.avatar = NULL

\* C15: each stored record's email attribute equals the key it is stored
\* under, so login reports the email the User logged in with.
C15_EmailIsKey ==
    \A i \in 1..Len(users) :
        /\ users[i].user.email = users[i].key
        /\ login(users, [email |-> users[i].key,
                         password |-> users[i].user.password]).res.user.email
               = users[i].key

====
